---- MODULE Spec2Model ----
(***************************************************************************)
(* Order-promise engine of ERPNextNof: PromiseService.calculate_promise    *)
(* over StockService / ERPNextClient.                                      *)
(*                                                                         *)
(* Dates are day numbers; day 0 is a Monday, so d % 7 is Python's          *)
(* date.weekday() (Mon=0 .. Sun=6).  Quantities are whole units.           *)
(***************************************************************************)
EXTENDS Integers, Sequences, FiniteSets, TLC

VARIABLES
    pc,                       \* position of the calculate_promise call
    today,                    \* _get_today(): the clock's date
    now_after_cutoff,         \* clock: current_time > cutoff_time
    items,                    \* request: list of ItemRequest
    desired_date,             \* request: desired date or NoDate
    rules,                    \* request: PromiseRules
    item_lead_times,          \* PromiseService.item_lead_times
    warehouse_lead_times,     \* PromiseService.warehouse_lead_times
    erp,                      \* ERP snapshot and reachability, per item code
    base_today,               \* local: working-day-normalised today
    plan,                     \* local: list of ItemPlan
    incoming_seen,            \* what get_incoming_supply returned, per plan entry
    all_item_reasons,         \* local: reasons collected from _build_item_plan
    has_po_access_error,      \* local
    latest_fulfillment_date,  \* local
    response,                 \* the returned PromiseResponse, or the raised error
    circuit,                  \* erpnext_client._circuit_breaker, one per process
    pending,                  \* how often the same request is still to arrive
    history,                  \* outcomes of the earlier calculate_promise calls
    warehouse_names,          \* expand_warehouse_list: the list passed in
    deduplicate,              \* expand_warehouse_list: the flag passed in
    expansion                 \* expand_warehouse_list: the list returned

vars == <<pc, today, now_after_cutoff, items, desired_date, rules,
          item_lead_times, warehouse_lead_times, erp, base_today, plan,
          incoming_seen, all_item_reasons, has_po_access_error,
          latest_fulfillment_date, response, circuit, pending, history,
          warehouse_names, deduplicate, expansion>>

(* the arguments and the result of a call of expand_warehouse_list *)
listing == <<warehouse_names, deduplicate, expansion>>

-----------------------------------------------------------------------------
(* Bounds of the model *)

MaxItems == 2
MaxNames == 3
MaxQty == 2
MaxPODelay == 2
MaxBuffer == 1
MaxLead == 1
MaxDesiredAhead == 7

(* Bound of the working days added in the calendar checks *)
MaxAdd == 7

(* Bound of the repeated requests *)
MaxRepeat == 2

(* Bounds of the confidence scenarios *)
ConfSmall == 10
ConfLarge == 100
MonoSteps == 12

(* Bounds of the allocation scenarios *)
PlanMaxQty == 3
PlanMaxStock == 2
PlanMaxPOs == 2
PlanMaxPOQty == 2
PlanMaxPODelay == 1

-----------------------------------------------------------------------------
(* Values *)

NoDate == -1          \* Optional[date] = None
NoLead == NoDate      \* no lead-time override / value
None == "None"        \* None of a string-valued field

Max(a, b) == IF a >= b THEN a ELSE b
Min(a, b) == IF a <= b THEN a ELSE b

Todays == {7 + w : w \in 0..6}

ItemCodes == <<"ITEM-A", "ITEM-B", "ITEM-C">>

default_warehouse == "Stores - WH"
processing_lead_time_days_default == 1

(* _circuit_breaker = CircuitBreaker(failure_threshold=5, timeout=60) and  *)
(* @retry(stop=stop_after_attempt(3))                                      *)
failure_threshold == 5
stop_after_attempt == 3

Modes == {"LATEST_ACCEPTABLE", "STRICT_FAIL", "NO_EARLY_DELIVERY"}

(* How the ERP answers one request of the client: a response, HTTP 403,    *)
(* another HTTP error status, or a network timeout on every attempt.       *)
ClientOutcomes == {"ok", "http_403", "http_error", "timeout"}

-----------------------------------------------------------------------------
(* Calendar utilities *)

is_working_day(date_obj) == (date_obj % 7) \notin {4, 5}

RECURSIVE next_working_day(_)
next_working_day(date_obj) ==
    IF is_working_day(date_obj) THEN date_obj
    ELSE next_working_day(date_obj + 1)

RECURSIVE add_working_days_loop(_, _, _)
add_working_days_loop(current, days_added, working_days) ==
    IF days_added < working_days
    THEN add_working_days_loop(current + 1,
             IF is_working_day(current + 1) THEN days_added + 1 ELSE days_added,
             working_days)
    ELSE current

(* add_working_days counting the start date itself when it is a working day *)
add_working_days_Inclusive(start_date, working_days) ==
    IF working_days = 0 THEN start_date
    ELSE add_working_days_loop(start_date - 1, 0, working_days)

add_working_days(start_date, working_days) ==
    IF working_days = 0 THEN start_date
    ELSE add_working_days_loop(start_date, 0, working_days)

(* add_days counting calendar days whatever the rules say *)
add_days_Calendar(r, d, n) == d + n

(* date + processing/buffer days: working days under no_weekends, calendar days otherwise *)
add_days(r, d, n) ==
    IF r.no_weekends THEN add_working_days(d, n) ELSE d + n

-----------------------------------------------------------------------------
(* Warehouse classification *)

(* A warehouse name is a string; Spelling gives its characters, on which   *)
(* lower(), strip() and the substring test `in` work.                      *)
Letters == <<"a", "b", "c", "d", "e", "f", "g", "h", "i", "j", "k", "l", "m", "n", "o",
           "p", "q", "r", "s", "t", "u", "v", "w", "x", "y", "z">>

Capitals == <<"A", "B", "C", "D", "E", "F", "G", "H", "I", "J", "K", "L", "M", "N", "O",
            "P", "Q", "R", "S", "T", "U", "V", "W", "X", "Y", "Z">>

lower_char(c) ==
    IF \E i \in 1..Len(Capitals) : Capitals[i] = c
    THEN Letters[CHOOSE i \in 1..Len(Capitals) : Capitals[i] = c]
    ELSE c

(* str.lower *)
lower(s) == [i \in 1..Len(s) |-> lower_char(s[i])]

(* str.strip *)
RECURSIVE strip(_)
strip(s) ==
    IF s = <<>> THEN s
    ELSE IF Head(s) = " " THEN strip(Tail(s))
    ELSE IF s[Len(s)] = " " THEN strip(SubSeq(s, 1, Len(s) - 1))
    ELSE s

(* pattern in s *)
Contains(pattern, s) ==
    \E i \in 1..(Len(s) - Len(pattern) + 1) :
        SubSeq(s, i, i + Len(pattern) - 1) = pattern

(* the names the checks use, spelled out *)
Names == {"Stores - WH", "Stores - SD", "Finished Goods - SD",
          "Goods In Transit - SD", "Work In Progress - SD",
          "All Warehouses - SD", "Finished Goods - WH",
          "Goods In Transit - WH", "Work In Progress - WH",
          "All Warehouses - WH", "STORES - SD", " stores - sd ",
          "Transit Hub", "WIP Area", "Finished Items", "Spare Parts Group",
          "Small Parts", "Scrap Yard", "Rejected Items", "Finished Scrap",
          "Depot"}

Spelling ==
    [n \in Names |->
        CASE n = "Stores - WH" -> <<"S", "t", "o", "r", "e", "s", " ", "-",
               " ", "W", "H">>
          [] n = "Stores - SD" -> <<"S", "t", "o", "r", "e", "s", " ", "-",
               " ", "S", "D">>
          [] n = "Finished Goods - SD" -> <<"F", "i", "n", "i", "s", "h", "e",
               "d", " ", "G", "o", "o", "d", "s", " ", "-", " ", "S", "D">>
          [] n = "Goods In Transit - SD" -> <<"G", "o", "o", "d", "s", " ",
               "I", "n", " ", "T", "r", "a", "n", "s", "i", "t", " ", "-",
               " ", "S", "D">>
          [] n = "Work In Progress - SD" -> <<"W", "o", "r", "k", " ", "I",
               "n", " ", "P", "r", "o", "g", "r", "e", "s", "s", " ", "-",
               " ", "S", "D">>
          [] n = "All Warehouses - SD" -> <<"A", "l", "l", " ", "W", "a", "r",
               "e", "h", "o", "u", "s", "e", "s", " ", "-", " ", "S", "D">>
          [] n = "Finished Goods - WH" -> <<"F", "i", "n", "i", "s", "h", "e",
               "d", " ", "G", "o", "o", "d", "s", " ", "-", " ", "W", "H">>
          [] n = "Goods In Transit - WH" -> <<"G", "o", "o", "d", "s", " ",
               "I", "n", " ", "T", "r", "a", "n", "s", "i", "t", " ", "-",
               " ", "W", "H">>
          [] n = "Work In Progress - WH" -> <<"W", "o", "r", "k", " ", "I",
               "n", " ", "P", "r", "o", "g", "r", "e", "s", "s", " ", "-",
               " ", "W", "H">>
          [] n = "All Warehouses - WH" -> <<"A", "l", "l", " ", "W", "a", "r",
               "e", "h", "o", "u", "s", "e", "s", " ", "-", " ", "W", "H">>
          [] n = "STORES - SD" -> <<"S", "T", "O", "R", "E", "S", " ", "-",
               " ", "S", "D">>
          [] n = " stores - sd " -> <<" ", "s", "t", "o", "r", "e", "s", " ",
               "-", " ", "s", "d", " ">>
          [] n = "Transit Hub" -> <<"T", "r", "a", "n", "s", "i", "t", " ",
               "H", "u", "b">>
          [] n = "WIP Area" -> <<"W", "I", "P", " ", "A", "r", "e", "a">>
          [] n = "Finished Items" -> <<"F", "i", "n", "i", "s", "h", "e", "d",
               " ", "I", "t", "e", "m", "s">>
          [] n = "Spare Parts Group" -> <<"S", "p", "a", "r", "e", " ", "P",
               "a", "r", "t", "s", " ", "G", "r", "o", "u", "p">>
          [] n = "Small Parts" -> <<"S", "m", "a", "l", "l", " ", "P", "a",
               "r", "t", "s">>
          [] n = "Scrap Yard" -> <<"S", "c", "r", "a", "p", " ", "Y", "a",
               "r", "d">>
          [] n = "Rejected Items" -> <<"R", "e", "j", "e", "c", "t", "e", "d",
               " ", "I", "t", "e", "m", "s">>
          [] n = "Finished Scrap" -> <<"F", "i", "n", "i", "s", "h", "e", "d",
               " ", "S", "c", "r", "a", "p">>
          [] n = "Depot" -> <<"D", "e", "p", "o", "t">>
    ]

(* DEFAULT_WAREHOUSE_CLASSIFICATIONS, keys in lower case *)
DEFAULT_WAREHOUSE_CLASSIFICATIONS ==
    <<[key |-> <<"s", "t", "o", "r", "e", "s", " ", "-", " ", "s",
          "d">>, type |-> "SELLABLE"],
      [key |-> <<"s", "t", "o", "r", "e", "s", " ", "-", " ", "w",
          "h">>, type |-> "SELLABLE"],
      [key |-> <<"m", "a", "i", "n", " ", "w", "a", "r", "e", "h", "o", "u",
          "s", "e">>, type |-> "SELLABLE"],
      [key |-> <<"w", "a", "r", "e", "h", "o", "u", "s",
          "e">>, type |-> "SELLABLE"],
      [key |-> <<"f", "i", "n", "i", "s", "h", "e", "d", " ", "g", "o", "o",
          "d", "s", " ", "-", " ", "s", "d">>, type |-> "NEEDS_PROCESSING"],
      [key |-> <<"f", "i", "n", "i", "s", "h", "e", "d", " ", "g", "o", "o",
          "d", "s", " ", "-", " ", "w", "h">>, type |-> "NEEDS_PROCESSING"],
      [key |-> <<"f", "i", "n", "i", "s", "h", "e", "d", " ", "g", "o", "o",
          "d", "s">>, type |-> "NEEDS_PROCESSING"],
      [key |-> <<"g", "o", "o", "d", "s", " ", "i", "n", " ", "t", "r", "a",
          "n", "s", "i", "t", " ", "-", " ", "s",
          "d">>, type |-> "IN_TRANSIT"],
      [key |-> <<"g", "o", "o", "d", "s", " ", "i", "n", " ", "t", "r", "a",
          "n", "s", "i", "t", " ", "-", " ", "w",
          "h">>, type |-> "IN_TRANSIT"],
      [key |-> <<"g", "o", "o", "d", "s", " ", "i", "n", " ", "t", "r", "a",
          "n", "s", "i", "t">>, type |-> "IN_TRANSIT"],
      [key |-> <<"i", "n", " ", "t", "r", "a", "n", "s", "i",
          "t">>, type |-> "IN_TRANSIT"],
      [key |-> <<"w", "o", "r", "k", " ", "i", "n", " ", "p", "r", "o", "g",
          "r", "e", "s", "s", " ", "-", " ", "s",
          "d">>, type |-> "NOT_AVAILABLE"],
      [key |-> <<"w", "o", "r", "k", " ", "i", "n", " ", "p", "r", "o", "g",
          "r", "e", "s", "s", " ", "-", " ", "w",
          "h">>, type |-> "NOT_AVAILABLE"],
      [key |-> <<"w", "o", "r", "k", " ", "i", "n", " ", "p", "r", "o", "g",
          "r", "e", "s", "s">>, type |-> "NOT_AVAILABLE"],
      [key |-> <<"w", "i", "p">>, type |-> "NOT_AVAILABLE"],
      [key |-> <<"r", "e", "j", "e", "c", "t", "e", "d", " ", "-", " ", "s",
          "d">>, type |-> "NOT_AVAILABLE"],
      [key |-> <<"r", "e", "j", "e", "c", "t", "e", "d", " ", "-", " ", "w",
          "h">>, type |-> "NOT_AVAILABLE"],
      [key |-> <<"s", "c", "r", "a", "p">>, type |-> "NOT_AVAILABLE"],
      [key |-> <<"a", "l", "l", " ", "w", "a", "r", "e", "h", "o", "u", "s",
          "e", "s", " ", "-", " ", "s", "d">>, type |-> "GROUP"],
      [key |-> <<"a", "l", "l", " ", "w", "a", "r", "e", "h", "o", "u", "s",
          "e", "s", " ", "-", " ", "w", "h">>, type |-> "GROUP"],
      [key |-> <<"a", "l", "l", " ", "w", "a", "r", "e", "h", "o", "u", "s",
          "e", "s">>, type |-> "GROUP"]>>

(* the substrings of the pattern rules *)
P_transit == <<"t", "r", "a", "n", "s", "i", "t">>
P_in_transit == <<"i", "n", " ", "t", "r", "a", "n", "s", "i", "t">>
P_wip == <<"w", "i", "p">>
P_work_in_progress == <<"w", "o", "r", "k", " ", "i", "n", " ", "p", "r", "o",
    "g", "r", "e", "s", "s">>
P_finished_goods == <<"f", "i", "n", "i", "s", "h", "e", "d", " ", "g", "o",
    "o", "d", "s">>
P_finished == <<"f", "i", "n", "i", "s", "h", "e", "d">>
P_all == <<"a", "l", "l">>
P_group == <<"g", "r", "o", "u", "p">>
P_scrap == <<"s", "c", "r", "a", "p">>
P_reject == <<"r", "e", "j", "e", "c", "t">>

InTable(normalized) ==
    \E k \in 1..Len(DEFAULT_WAREHOUSE_CLASSIFICATIONS) :
        DEFAULT_WAREHOUSE_CLASSIFICATIONS[k].key = normalized

TableType(normalized) ==
    DEFAULT_WAREHOUSE_CLASSIFICATIONS[
        CHOOSE k \in 1..Len(DEFAULT_WAREHOUSE_CLASSIFICATIONS) :
            DEFAULT_WAREHOUSE_CLASSIFICATIONS[k].key = normalized].type

(* lines 127-140: the pattern rules, in the order of the if/elif chain *)
PatternType(normalized) ==
    IF Contains(P_transit, normalized) \/ Contains(P_in_transit, normalized)
    THEN "IN_TRANSIT"
    ELSE IF Contains(P_wip, normalized) \/ Contains(P_work_in_progress, normalized)
    THEN "NOT_AVAILABLE"
    ELSE IF Contains(P_finished_goods, normalized) \/ Contains(P_finished, normalized)
    THEN "NEEDS_PROCESSING"
    ELSE IF Contains(P_all, normalized) \/ Contains(P_group, normalized)
    THEN "GROUP"
    ELSE IF Contains(P_scrap, normalized) \/ Contains(P_reject, normalized)
    THEN "NOT_AVAILABLE"
    ELSE "SELLABLE"

(* lines 121-140, for the characters of a non-empty name *)
ClassifyNormalized(normalized) ==
    IF InTable(normalized) THEN TableType(normalized)
    ELSE PatternType(normalized)

(* warehouse_name.lower().strip() of every name of the model *)
Normalized == [name \in Names |-> strip(lower(Spelling[name]))]

(* the type of every name of the model *)
Classified == [name \in Names |-> ClassifyNormalized(Normalized[name])]

classify_warehouse(warehouse_name) ==
    IF warehouse_name \notin Names THEN "SELLABLE"
    ELSE Classified[warehouse_name]

-----------------------------------------------------------------------------
(* Group warehouses and their children *)

DEFAULT_WAREHOUSE_HIERARCHY ==
    <<[key |-> <<"a", "l", "l", " ", "w", "a", "r", "e", "h", "o", "u", "s", "e", "s", " ", "-", " ", "s", "d">>,
       children |-> <<"Stores - SD", "Finished Goods - SD",
                      "Goods In Transit - SD", "Work In Progress - SD">>],
      [key |-> <<"a", "l", "l", " ", "w", "a", "r", "e", "h", "o", "u", "s", "e", "s", " ", "-", " ", "w", "h">>,
       children |-> <<"Stores - WH", "Finished Goods - WH",
                      "Goods In Transit - WH", "Work In Progress - WH">>]>>

is_group_warehouse(warehouse_name) == classify_warehouse(warehouse_name) = "GROUP"

(* hierarchy.get(normalized, []) *)
get_child_warehouses(group_warehouse) ==
    LET normalized == Normalized[group_warehouse]
        hit == {k \in 1..Len(DEFAULT_WAREHOUSE_HIERARCHY) :
                   DEFAULT_WAREHOUSE_HIERARCHY[k].key = normalized}
    IN  IF hit = {} THEN <<>>
        ELSE DEFAULT_WAREHOUSE_HIERARCHY[CHOOSE k \in hit : TRUE].children

(* the first loop of expand_warehouse_list: a group contributes its      *)
(* children, or nothing when it has none; any other name is appended     *)
RECURSIVE ExpandGroups(_)
ExpandGroups(names) ==
    IF names = <<>> THEN <<>>
    ELSE (IF is_group_warehouse(Head(names))
          THEN get_child_warehouses(Head(names))
          ELSE <<Head(names)>>) \o ExpandGroups(Tail(names))

(* a second loop that keeps the last of the entries with one normalised name *)
RECURSIVE Deduplicated_KeepLast(_, _)
Deduplicated_KeepLast(expanded, seen) ==
    IF expanded = <<>> THEN <<>>
    ELSE IF \E k \in 2..Len(expanded) :
               Normalized[expanded[k]] = Normalized[Head(expanded)]
         THEN Deduplicated_KeepLast(Tail(expanded), seen)
         ELSE <<Head(expanded)>> \o Deduplicated_KeepLast(Tail(expanded), seen)

(* the second loop: an entry is kept unless its lower-cased, stripped    *)
(* name was seen before                                                  *)
RECURSIVE Deduplicated(_, _)
Deduplicated(expanded, seen) ==
    IF expanded = <<>> THEN <<>>
    ELSE IF Normalized[Head(expanded)] \in seen
         THEN Deduplicated(Tail(expanded), seen)
         ELSE <<Head(expanded)>> \o
              Deduplicated(Tail(expanded),
                           seen \cup {Normalized[Head(expanded)]})

expand_warehouse_list(names, dedup) ==
    IF dedup THEN Deduplicated(ExpandGroups(names), {}) ELSE ExpandGroups(names)

-----------------------------------------------------------------------------
(* StockService over ERPNextClient *)

(* The circuit breaker: cooled says that more than `timeout` seconds have  *)
(* passed since last_failure_time.                                         *)
CircuitBreaker(state, failure_count, cooled) ==
    [state |-> state, failure_count |-> failure_count, cooled |-> cooled]

(* a breaker that opens only when the threshold is exceeded *)
record_failure_Exceeding(cb) ==
    LET n == cb.failure_count + 1 IN
    CircuitBreaker(IF n > failure_threshold THEN "open" ELSE cb.state, n, FALSE)

record_failure(cb) ==
    LET n == cb.failure_count + 1 IN
    CircuitBreaker(IF n >= failure_threshold THEN "open" ELSE cb.state, n, FALSE)

record_success(cb) == CircuitBreaker("closed", 0, FALSE)

(* is_open: the answer and the breaker it leaves behind *)
is_open(cb) ==
    IF cb.state = "open"
    THEN IF cb.cooled
         THEN [open |-> FALSE, cb |-> CircuitBreaker("half_open", 0, cb.cooled)]
         ELSE [open |-> TRUE, cb |-> cb]
    ELSE [open |-> FALSE, cb |-> cb]

(* getattr(e, "status_code", None) of an exception without the attribute *)
NoStatus == 0

(* ERPNextClientError as _make_request raises it: the status is part of    *)
(* the message only, the exception has no status_code attribute            *)
ERPNextClientError(cb) ==
    [result |-> "ERPNextClientError", status_code |-> NoStatus, cb |-> cb]

(* lines 156-183: the attempt once is_open has answered with gate *)
Send(outcome, gate) ==
    IF gate.open THEN ERPNextClientError(gate.cb)
    ELSE IF outcome = "ok"
    THEN [result |-> "ok", status_code |-> NoStatus, cb |-> record_success(gate.cb)]
    ELSE IF outcome = "timeout"
    THEN [result |-> "timeout", status_code |-> NoStatus, cb |-> record_failure(gate.cb)]
    ELSE ERPNextClientError(record_failure(gate.cb))

(* one attempt of _make_request against an ERP that answers with outcome:  *)
(* what the attempt ends with, and the breaker afterwards                  *)
Attempt(outcome, cb) == Send(outcome, is_open(cb))

(* _make_request under @retry: network errors are retried, the third one   *)
(* leaves as tenacity's RetryError; ERPNextClientError is not retried      *)
RECURSIVE Retrying(_, _, _)

(* what follows the attempt a: its result, another attempt, or RetryError *)
AfterAttempt(outcome, a, attempt_number) ==
    IF a.result # "timeout" THEN a
    ELSE IF attempt_number < stop_after_attempt
    THEN Retrying(outcome, a.cb, attempt_number + 1)
    ELSE [result |-> "retry_error", status_code |-> NoStatus, cb |-> a.cb]

Retrying(outcome, cb, attempt_number) ==
    AfterAttempt(outcome, Attempt(outcome, cb), attempt_number)

_make_request(outcome, cb) == Retrying(outcome, cb, 1)

(* get_available_stock: a client error is swallowed and reported as zero   *)
(* stock; a timeout on every attempt leaves _make_request as an exception  *)
(* that is not an ERPNextClientError and is not caught here.               *)
StockAnswer(bin, resp) ==
    IF resp.result = "retry_error"
    THEN [raised |-> TRUE, available_qty |-> 0, cb |-> resp.cb]
    ELSE IF resp.result # "ok"
    THEN [raised |-> FALSE, available_qty |-> 0, cb |-> resp.cb]
    ELSE [raised |-> FALSE,
          available_qty |-> Max(0, bin.actual_qty - bin.reserved_qty),
          cb |-> resp.cb]

get_available_stock(item_code, warehouse, cb) ==
    StockAnswer(erp[item_code], _make_request(erp[item_code].bin_outcome, cb))

(* InsertByDate placing a record before the records of the same date *)
RECURSIVE InsertByDate_BeforeTies(_, _)
InsertByDate_BeforeTies(rec, sorted) ==
    IF sorted = <<>> THEN <<rec>>
    ELSE IF Head(sorted).expected_date < rec.expected_date
         THEN <<Head(sorted)>> \o InsertByDate_BeforeTies(rec, Tail(sorted))
         ELSE <<rec>> \o sorted

(* list.sort(key=expected_date): stable insertion by expected date only *)
RECURSIVE InsertByDate(_, _)
InsertByDate(rec, sorted) ==
    IF sorted = <<>> THEN <<rec>>
    ELSE IF Head(sorted).expected_date <= rec.expected_date
         THEN <<Head(sorted)>> \o InsertByDate(rec, Tail(sorted))
         ELSE <<rec>> \o sorted

(* SortByExpectedDate leaving the records as the ERP listed them *)
SortByExpectedDate_Unsorted(supply) == supply

RECURSIVE SortByExpectedDate(_)
SortByExpectedDate(supply) ==
    IF supply = <<>> THEN <<>>
    ELSE InsertByDate(supply[Len(supply)],
                      SortByExpectedDate(SubSeq(supply, 1, Len(supply) - 1)))

ToSupply(pos) ==
    [i \in 1..Len(pos) |->
        [po_id |-> pos[i].po_id, qty |-> pos[i].pending_qty,
         expected_date |-> pos[i].schedule_date]]

SupplyAnswer(e, after_date, resp) ==
    LET kept == SelectSeq(ToSupply(e.pos),
                          LAMBDA s : ~(s.expected_date < after_date))
    IN
    CASE resp.result = "retry_error" ->
            [raised |-> TRUE, supply |-> <<>>, access_error |-> None,
             cb |-> resp.cb]
      [] resp.result = "ERPNextClientError" /\ resp.status_code = 403 ->
            [raised |-> FALSE, supply |-> <<>>, access_error |-> "permission_denied",
             cb |-> resp.cb]
      [] resp.result = "ERPNextClientError" ->
            [raised |-> FALSE, supply |-> <<>>, access_error |-> "other_error",
             cb |-> resp.cb]
      [] OTHER ->
            [raised |-> FALSE, supply |-> SortByExpectedDate(kept),
             access_error |-> None, cb |-> resp.cb]

get_incoming_supply(item_code, after_date, cb) ==
    SupplyAnswer(erp[item_code], after_date,
                 _make_request(erp[item_code].po_outcome, cb))

-----------------------------------------------------------------------------
(* PromiseService *)

(* which level of the hierarchy decides (lines 68-81) *)
LeadTimeLevel(item_override, warehouse_override, rule_value) ==
    IF item_override # NoLead THEN 1
    ELSE IF warehouse_override # NoLead THEN 2
    ELSE IF rule_value # NoLead THEN 3
    ELSE 4

_get_processing_lead_time(item_code, warehouse, r) ==
    IF item_lead_times[item_code] # NoLead THEN item_lead_times[item_code]
    ELSE IF warehouse_lead_times[warehouse] # NoLead THEN warehouse_lead_times[warehouse]
    ELSE IF r.processing_lead_time_days # NoLead THEN r.processing_lead_time_days
    ELSE processing_lead_time_days_default

StockSource(qty, available_date, ship_ready_date, warehouse) ==
    [source |-> "stock", qty |-> qty, available_date |-> available_date,
     ship_ready_date |-> ship_ready_date, warehouse |-> warehouse,
     po_id |-> None, expected_date |-> NoDate]

POSource(po, qty, available_date, ship_ready_date) ==
    [source |-> "purchase_order", qty |-> qty, available_date |-> available_date,
     ship_ready_date |-> ship_ready_date, warehouse |-> None,
     po_id |-> po.po_id, expected_date |-> po.expected_date]

(* StockStep allocating the stock of a warehouse of any type *)
StockStep_AnyWarehouse(item, warehouse, td, r, available_stock) ==
    LET lead_time_days == _get_processing_lead_time(item.item_code, warehouse, r)
        qty_from_stock == Min(available_stock, item.qty)
    IN
    IF ~(available_stock > 0) THEN [fulfillment |-> <<>>, reasons |-> <<>>]
    ELSE [fulfillment |-> <<StockSource(qty_from_stock, td,
                               add_days(r, td, lead_time_days), warehouse)>>,
          reasons |-> <<[kind |-> "from_stock", warehouse |-> warehouse,
                         qty |-> qty_from_stock]>>]

(* lines 308-378: the stock branch; returns the stock sources and reasons *)
StockStep(item, warehouse, td, r, available_stock) ==
    LET warehouse_type == classify_warehouse(warehouse)
        lead_time_days == _get_processing_lead_time(item.item_code, warehouse, r)
        qty_from_stock == Min(available_stock, item.qty)
    IN
    IF ~(available_stock > 0) THEN [fulfillment |-> <<>>, reasons |-> <<>>]
    ELSE CASE warehouse_type = "SELLABLE" ->
               [fulfillment |-> <<StockSource(qty_from_stock, td,
                                      add_days(r, td, lead_time_days), warehouse)>>,
                reasons |-> <<[kind |-> "from_stock", warehouse |-> warehouse,
                               qty |-> qty_from_stock]>>]
           [] warehouse_type = "NEEDS_PROCESSING" ->
               [fulfillment |-> <<StockSource(qty_from_stock, td,
                                      add_days(r, td, lead_time_days + 1), warehouse)>>,
                reasons |-> <<[kind |-> "from_stock_processing", warehouse |-> warehouse,
                               qty |-> qty_from_stock]>>]
           [] warehouse_type = "IN_TRANSIT" ->
               [fulfillment |-> <<>>,
                reasons |-> <<[kind |-> "not_ship_ready", warehouse |-> warehouse,
                               qty |-> available_stock]>>]
           [] warehouse_type = "NOT_AVAILABLE" ->
               [fulfillment |-> <<>>,
                reasons |-> <<[kind |-> "not_available", warehouse |-> warehouse,
                               qty |-> available_stock]>>]
           [] OTHER ->
               [fulfillment |-> <<>>,
                reasons |-> <<[kind |-> "group_must_expand", warehouse |-> warehouse,
                               qty |-> 0]>>]

(* ConsumePOs taking each purchase order whole (no min with qty_needed) *)
RECURSIVE ConsumePOs_WholePO(_, _, _, _)
ConsumePOs_WholePO(incoming_supply, qty_needed, r, lead_time_days) ==
    IF incoming_supply = <<>> \/ qty_needed <= 0
    THEN [fulfillment |-> <<>>, qty_needed |-> qty_needed]
    ELSE LET po == Head(incoming_supply)
             rest == ConsumePOs_WholePO(Tail(incoming_supply), qty_needed - po.qty,
                                        r, lead_time_days)
         IN [fulfillment |-> <<[source |-> "purchase_order", qty |-> po.qty,
                                available_date |-> po.expected_date,
                                ship_ready_date |-> po.expected_date,
                                warehouse |-> None, po_id |-> po.po_id,
                                expected_date |-> po.expected_date]>>
                             \o rest.fulfillment,
             qty_needed |-> rest.qty_needed]

(* lines 399-428: the loop over the incoming purchase orders *)
RECURSIVE ConsumePOs(_, _, _, _)
ConsumePOs(incoming_supply, qty_needed, r, lead_time_days) ==
    IF incoming_supply = <<>> \/ qty_needed <= 0
    THEN [fulfillment |-> <<>>, qty_needed |-> qty_needed]
    ELSE LET po == Head(incoming_supply)
             qty_from_po == Min(po.qty, qty_needed)
             available_date ==
                 IF r.no_weekends /\ ~is_working_day(po.expected_date)
                 THEN next_working_day(po.expected_date)
                 ELSE po.expected_date
             ship_ready_date == add_days(r, available_date, lead_time_days)
             rest == ConsumePOs(Tail(incoming_supply), qty_needed - qty_from_po,
                                r, lead_time_days)
         IN [fulfillment |-> <<POSource(po, qty_from_po, available_date,
                                        ship_ready_date)>> \o rest.fulfillment,
             qty_needed |-> rest.qty_needed]

SumQty(fulfillment) ==
    LET RECURSIVE S(_)
        S(i) == IF i = 0 THEN 0 ELSE fulfillment[i].qty + S(i - 1)
    IN S(Len(fulfillment))

_build_item_plan(item, warehouse, td, r, cb) ==
    LET lead_time_days == _get_processing_lead_time(item.item_code, warehouse, r)
        stock == get_available_stock(item.item_code, warehouse, cb)
        st == StockStep(item, warehouse, td, r, stock.available_qty)
        after_stock == item.qty - SumQty(st.fulfillment)
        incoming_result ==
            IF stock.raised
            THEN [raised |-> TRUE, supply |-> <<>>, access_error |-> None,
                  cb |-> stock.cb]
            ELSE IF after_stock > 0
            THEN get_incoming_supply(item.item_code, td, stock.cb)
            ELSE [raised |-> FALSE, supply |-> <<>>, access_error |-> None,
                  cb |-> stock.cb]
        po == IF incoming_result.access_error # None
              THEN [fulfillment |-> <<>>, qty_needed |-> after_stock]
              ELSE ConsumePOs(incoming_result.supply, after_stock, r, lead_time_days)
        access_reason ==
            IF incoming_result.access_error = None THEN <<>>
            ELSE IF incoming_result.access_error = "permission_denied"
                 THEN <<[kind |-> "po_permission_denied", warehouse |-> warehouse, qty |-> 0]>>
                 ELSE <<[kind |-> "po_access_error", warehouse |-> warehouse, qty |-> 0]>>
    IN
    [raised |-> stock.raised \/ incoming_result.raised,
     item_plan |-> [item_code |-> item.item_code,
                    qty_required |-> item.qty,
                    fulfillment |-> st.fulfillment \o po.fulfillment,
                    shortage |-> Max(0, po.qty_needed)],
     po_access_error |-> incoming_result.access_error,
     reasons |-> st.reasons \o access_reason,
     queried |-> after_stock > 0,
     incoming |-> incoming_result.supply,
     cb |-> incoming_result.cb]

-----------------------------------------------------------------------------
(* Business rules, desired date, confidence, explanations *)

(* _apply_cutoff_rule adding the day whenever the call is after the cutoff *)
_apply_cutoff_rule_AnyDate(promise_date, r, td) ==
    IF now_after_cutoff THEN add_days(r, promise_date, 1) ELSE promise_date

_apply_cutoff_rule(promise_date, r, td) ==
    IF promise_date = td /\ now_after_cutoff
    THEN add_days(r, promise_date, 1)
    ELSE promise_date

_skip_weekends(target_date) == next_working_day(target_date)

_apply_business_rules(base_date, r, td) ==
    LET buffered == add_days(r, base_date, r.lead_time_buffer_days)
        cut == _apply_cutoff_rule(buffered, r, td)
    IN IF r.no_weekends THEN _skip_weekends(cut) ELSE cut

PyBool(b) == IF b THEN "True" ELSE "False"

(* the dict returned by _apply_desired_date_constraints; raised = TRUE     *)
(* stands for the ValueError of STRICT_FAIL                                *)
PromiseResult(raised, promise_date, on_time, adjusted, reason) ==
    [raised |-> raised, promise_date |-> promise_date, on_time |-> on_time,
     adjusted_due_to_no_early_delivery |-> adjusted, adjusted_reason |-> reason]

(* LatestAcceptable with on_time computed by a strict comparison *)
LatestAcceptable_Strict(promise_date_raw, desired) ==
    PromiseResult(FALSE, promise_date_raw, PyBool(promise_date_raw < desired), FALSE,
                  IF promise_date_raw < desired THEN "on_time" ELSE "late")

(* lines 504-511 *)
LatestAcceptable(promise_date_raw, desired) ==
    LET on_time == promise_date_raw <= desired IN
    PromiseResult(FALSE, promise_date_raw, PyBool(on_time), FALSE,
                  IF on_time THEN "on_time" ELSE "late")

(* StrictFail returning the late promise instead of raising *)
StrictFail_NoRaise(promise_date_raw, desired) ==
    PromiseResult(FALSE, promise_date_raw, PyBool(promise_date_raw <= desired), FALSE,
                  "meets_constraint")

(* lines 513-528 *)
StrictFail(promise_date_raw, desired) ==
    LET on_time == promise_date_raw <= desired IN
    IF ~on_time
    THEN PromiseResult(TRUE, promise_date_raw, "False", FALSE,
                       "cannot_meet_desired_date")
    ELSE PromiseResult(FALSE, promise_date_raw, "True", FALSE, "meets_constraint")

(* lines 530-547 *)
NoEarlyDelivery(promise_date_raw, desired) ==
    IF promise_date_raw < desired
    THEN PromiseResult(FALSE, desired, "True", TRUE, "adjusted_to_desired")
    ELSE PromiseResult(FALSE, promise_date_raw, "False", FALSE, "late")

_apply_desired_date_constraints(promise_date_raw, desired, r) ==
    IF desired = NoDate
    THEN PromiseResult(FALSE, promise_date_raw, None, FALSE, None)
    ELSE CASE r.desired_date_mode = "LATEST_ACCEPTABLE" ->
               LatestAcceptable(promise_date_raw, desired)
           [] r.desired_date_mode = "STRICT_FAIL" ->
               StrictFail(promise_date_raw, desired)
           [] OTHER ->
               NoEarlyDelivery(promise_date_raw, desired)

(* all fulfillment sources of a plan, in order *)
RECURSIVE AllSources(_)
AllSources(p) ==
    IF p = <<>> THEN <<>> ELSE Head(p).fulfillment \o AllSources(Tail(p))

RECURSIVE SumSeq(_)
SumSeq(nums) == IF nums = <<>> THEN 0 ELSE Head(nums) + SumSeq(Tail(nums))

SumOver(seq, val(_)) == SumSeq([i \in 1..Len(seq) |-> val(seq[i])])

(* lines 593-608: the quantities the confidence is computed from *)
TotalQty(p) == SumOver(p, LAMBDA ip : ip.qty_required)
ShortageQty(p) == SumOver(p, LAMBDA ip : ip.shortage)
StockQtyOf(p) ==
    SumOver(AllSources(p), LAMBDA f : IF f.source = "stock" THEN f.qty ELSE 0)
NearPOQty(p, td) ==
    SumOver(AllSources(p), LAMBDA f :
        IF f.source = "purchase_order" /\ f.expected_date - td <= 7
        THEN f.qty ELSE 0)
FarPOQty(p, td) ==
    SumOver(AllSources(p), LAMBDA f :
        IF f.source = "purchase_order" /\ ~(f.expected_date - td <= 7)
        THEN f.qty ELSE 0)

(* ConfidenceLevel rating a shortage LOW only when some stock is used *)
ConfidenceLevel_ShortageWithStock(total_qty, stock_qty, near_po_qty, far_po_qty, shortage_qty) ==
    IF total_qty > 0 /\ 100 * stock_qty >= 99 * total_qty /\ 100 * shortage_qty < total_qty
    THEN "HIGH"
    ELSE IF (total_qty > 0 /\ 10 * shortage_qty > total_qty /\ stock_qty > 0)
            \/ far_po_qty > near_po_qty + stock_qty
    THEN "LOW"
    ELSE "MEDIUM"

(* lines 610-620: stock_pct >= 0.99 and shortage_pct < 0.01, shortage_pct  *)
(* > 0.1, with pct = qty / total_qty (0 if total_qty is 0), in whole units *)
ConfidenceLevel(total_qty, stock_qty, near_po_qty, far_po_qty, shortage_qty) ==
    IF total_qty > 0 /\ 100 * stock_qty >= 99 * total_qty /\ 100 * shortage_qty < total_qty
    THEN "HIGH"
    ELSE IF (total_qty > 0 /\ 10 * shortage_qty > total_qty)
            \/ far_po_qty > near_po_qty + stock_qty
    THEN "LOW"
    ELSE "MEDIUM"

(* _calculate_confidence taking purchase orders due within 14 days as near *)
_calculate_confidence_Near14(p, td) ==
    ConfidenceLevel(TotalQty(p), StockQtyOf(p), NearPOQty(p, td + 7),
                    FarPOQty(p, td + 7), ShortageQty(p))

_calculate_confidence(p, td) ==
    ConfidenceLevel(TotalQty(p), StockQtyOf(p), NearPOQty(p, td),
                    FarPOQty(p, td), ShortageQty(p))

_generate_reasons(p, promise_date, base_date, r) ==
    [i \in 1..Len(p) |->
        IF p[i].fulfillment = <<>>
        THEN [kind |-> "no_supply", item_code |-> p[i].item_code]
        ELSE [kind |-> "sources", item_code |-> p[i].item_code]]
    \o (IF r.lead_time_buffer_days > 0 THEN <<[kind |-> "buffer_added"]>> ELSE <<>>)
    \o (IF promise_date # base_date THEN <<[kind |-> "adjusted_by_rules"]>> ELSE <<>>)
    \o (IF r.no_weekends /\ is_working_day(promise_date)
        THEN <<[kind |-> "weekend_avoided"]>> ELSE <<>>)

RECURSIVE _identify_blockers(_, _)
_identify_blockers(p, td) ==
    IF p = <<>> THEN <<>>
    ELSE LET ip == Head(p)
             late == SelectSeq(ip.fulfillment, LAMBDA f :
                        f.source = "purchase_order" /\ f.expected_date - td > 14)
         IN (IF ip.shortage > 0
             THEN <<[kind |-> "shortage", item_code |-> ip.item_code,
                     qty |-> ip.shortage, po_id |-> None]>>
             ELSE <<>>)
            \o [i \in 1..Len(late) |->
                   [kind |-> "late_po", item_code |-> ip.item_code,
                    qty |-> late[i].expected_date - td, po_id |-> late[i].po_id]]
            \o _identify_blockers(Tail(p), td)

PO_ACCESS_BLOCKER == [kind |-> "po_data_unavailable_permissions", item_code |-> None,
                      qty |-> 0, po_id |-> None]

RECURSIVE ItemOptions(_, _, _)
ItemOptions(p, missed_desired, td) ==
    IF p = <<>> THEN <<>>
    ELSE LET ip == Head(p)
             exp == SelectSeq(ip.fulfillment, LAMBDA f :
                        f.source = "purchase_order"
                        /\ (f.expected_date - td > 7 \/ missed_desired))
         IN (IF ip.shortage > 0
             THEN <<[type |-> "alternate_warehouse", item_code |-> ip.item_code,
                     po_id |-> None]>>
             ELSE <<>>)
            \o [i \in 1..Len(exp) |->
                   [type |-> "expedite_po", item_code |-> ip.item_code,
                    po_id |-> exp[i].po_id]]
            \o ItemOptions(Tail(p), missed_desired, td)

_suggest_options(p, desired, promise_result, td) ==
    LET missed_desired == desired # NoDate /\ promise_result.on_time = "False"
        in_stock_items == SelectSeq(p, LAMBDA ip :
                              ip.shortage = 0
                              /\ \E i \in 1..Len(ip.fulfillment) :
                                     ip.fulfillment[i].source = "stock")
    IN ItemOptions(p, missed_desired, td)
       \o (IF missed_desired /\ Len(p) > 0
              /\ Len(in_stock_items) > 0 /\ Len(in_stock_items) < Len(p)
           THEN <<[type |-> "split_shipment", item_code |-> None, po_id |-> None]>>
           ELSE <<>>)

-----------------------------------------------------------------------------
(* Initial states: the service as constructed, one pending request, the    *)
(* clock and the ERP snapshot the call will see, in families of inputs.    *)

Warehouses == {"Stores - WH", "Stores - SD", "Finished Goods - SD",
               "Goods In Transit - SD", "Work In Progress - SD",
               "All Warehouses - SD", "STORES - SD", " stores - sd ",
               "Transit Hub", "WIP Area", "Finished Items", "Spare Parts Group",
               "Small Parts", "Scrap Yard", "Rejected Items", "Finished Scrap",
               "Depot"}

NoOverrides(S) == [x \in S |-> NoLead]

Bin(outcome, actual, reserved, po_outcome, pos) ==
    [bin_outcome |-> outcome, actual_qty |-> actual, reserved_qty |-> reserved,
     po_outcome |-> po_outcome, pos |-> pos]

Item(i, qty, warehouse) ==
    [item_code |-> ItemCodes[i], qty |-> qty, warehouse |-> warehouse]

Rules(nw, buf, plt, mode) ==
    [no_weekends |-> nw, lead_time_buffer_days |-> buf,
     processing_lead_time_days |-> plt, desired_date_mode |-> mode]

(* nothing of calculate_promise has run in this process *)
Untouched ==
    /\ base_today = NoDate
    /\ plan = <<>>
    /\ incoming_seen = <<>>
    /\ all_item_reasons = <<>>
    /\ has_po_access_error = FALSE
    /\ latest_fulfillment_date = NoDate
    /\ response = [kind |-> "none"]
    /\ circuit = CircuitBreaker("closed", 0, FALSE)
    /\ history = <<>>

(* a request that passed validation, about to enter calculate_promise *)
Locals == pc = "idle" /\ Untouched

(* ItemRequest accepting a quantity of zero *)
ItemRequestValid_GeZero(item) == item.qty >= 0

(* ItemRequest: qty = Field(..., gt=0) *)
ItemRequestValid(item) == item.qty > 0

(* PromiseRequest: items = Field(..., min_length=1), each an ItemRequest *)
PromiseRequestValid(its) ==
    /\ Len(its) >= 1
    /\ \A i \in 1..Len(its) : ItemRequestValid(its[i])

(* a single request *)
Once == pending = 0

NoLeadOverrides ==
    /\ item_lead_times = NoOverrides({ItemCodes[i] : i \in 1..Len(ItemCodes)})
    /\ warehouse_lead_times = NoOverrides(Warehouses)

Monday == 7
Thursday == 10

(* lead-time overrides the service can be constructed with: none, or days  *)
ItemOverrideDays == 3
WarehouseOverrideDays == 2
ItemOverrides == {NoLead, 0, ItemOverrideDays}
WarehouseOverrides == {NoLead, 0, WarehouseOverrideDays}

(* PromiseRules.processing_lead_time_days: an int field, ge=0, default 1;  *)
(* validation leaves no way to omit it                                     *)
RuleLeadTimes == 0..MaxLead

PO(id, qty, date) == [po_id |-> id, pending_qty |-> qty, schedule_date |-> date]

(* the ERP lists the purchase orders of an item newest first: the k-th     *)
(* listed record carries the k-th of these ids                             *)
PoIds == <<"PO-4", "PO-3", "PO-2", "PO-1">>

Listings(qtys, dates, n) ==
    UNION {{[i \in 1..k |-> PO(PoIds[i], qs[i], ds[i])] :
               qs \in [1..k -> qtys], ds \in [1..k -> dates]} : k \in 0..n}

(* one unit of one item from the default warehouse, ERP reachable: from    *)
(* stock, from one purchase order, or not at all; every weekday, every     *)
(* rule and every desired date                                             *)
InitDates ==
    /\ Locals /\ NoLeadOverrides /\ Once
    /\ today \in Todays
    /\ now_after_cutoff \in BOOLEAN
    /\ \E nw \in BOOLEAN, buf \in 0..MaxBuffer, plt \in 0..MaxLead, mode \in Modes :
          rules = Rules(nw, buf, plt, mode)
    /\ desired_date \in {NoDate} \cup {today + k : k \in 0..MaxDesiredAhead}
    /\ items = <<Item(1, 1, None)>>
    /\ \E b \in {Bin("ok", 1, 0, "ok", <<>>), Bin("ok", 0, 0, "ok", <<>>)}
                \cup {Bin("ok", 0, 0, "ok", <<PO("PO-1", 1, today + d)>>) :
                         d \in 0..MaxPODelay} :
          erp = [c \in {ItemCodes[1]} |-> b]

(* one item, every outcome of the two ERP calls *)
InitFail ==
    /\ Locals /\ NoLeadOverrides /\ Once
    /\ today = Monday
    /\ now_after_cutoff = FALSE
    /\ \E nw \in BOOLEAN, mode \in Modes : rules = Rules(nw, 1, 1, mode)
    /\ desired_date \in {NoDate, today, today + MaxDesiredAhead}
    /\ \E qty \in {1, MaxQty} : items = <<Item(1, qty, None)>>
    /\ \E bo \in ClientOutcomes, po \in ClientOutcomes, stock \in {0, 1},
          pos \in {<<>>, <<PO("PO-1", MaxQty, today + MaxPODelay)>>} :
          erp = [c \in {ItemCodes[1]} |-> Bin(bo, stock, 0, po, pos)]

(* orders of several items *)
InitOrder ==
    /\ Locals /\ NoLeadOverrides /\ Once
    /\ today = Monday
    /\ now_after_cutoff = FALSE
    /\ \E nw \in BOOLEAN, mode \in Modes : rules = Rules(nw, 1, 1, mode)
    /\ desired_date \in {NoDate, today + MaxDesiredAhead}
    /\ \E n \in 2..MaxItems :
          /\ \E qs \in [1..n -> {1, MaxQty}] :
                items = [i \in 1..n |-> Item(i, qs[i], None)]
          /\ erp \in [{ItemCodes[i] : i \in 1..n} ->
                        {Bin("ok", stock, 0, po, <<>>) :
                            stock \in {0, MaxQty},
                            po \in {"ok", "http_403", "timeout"}}]

(* allocation of one item from a sellable warehouse against the purchase   *)
(* orders the ERP lists, some of them already due                          *)
InitPlan ==
    /\ Locals /\ NoLeadOverrides /\ Once
    /\ today = Thursday
    /\ now_after_cutoff = FALSE
    /\ \E nw \in BOOLEAN : rules = Rules(nw, 0, 1, "LATEST_ACCEPTABLE")
    /\ desired_date = NoDate
    /\ \E qty \in 1..PlanMaxQty : items = <<Item(1, qty, "Stores - SD")>>
    /\ \E actual \in 0..PlanMaxStock,
          pos \in Listings(1..PlanMaxPOQty,
                           {today + d : d \in (0 - 1)..PlanMaxPODelay}, PlanMaxPOs) :
          erp = [c \in {ItemCodes[1]} |-> Bin("ok", actual, 0, "ok", pos)]

(* allocation of one item from a warehouse of each type *)
InitWarehouse ==
    /\ Locals /\ NoLeadOverrides /\ Once
    /\ today \in {Thursday, Thursday + 1}
    /\ now_after_cutoff = FALSE
    /\ \E nw \in BOOLEAN : rules = Rules(nw, 0, 1, "LATEST_ACCEPTABLE")
    /\ desired_date = NoDate
    /\ \E qty \in {1, PlanMaxQty}, wh \in Warehouses :
          items = <<Item(1, qty, wh)>>
    /\ \E ar \in {<<0, 0>>, <<1, 0>>, <<1, 2>>, <<PlanMaxStock, 0>>, <<PlanMaxStock, 1>>,
                    <<PlanMaxQty, 0>>},
          pos \in {<<>>, <<PO("PO-1", PlanMaxPOQty, today + PlanMaxPODelay)>>} :
          erp = [c \in {ItemCodes[1]} |-> Bin("ok", ar[1], ar[2], "ok", pos)]

(* a service constructed with lead-time overrides *)
InitLead ==
    /\ Locals /\ Once
    /\ today = Monday
    /\ now_after_cutoff = FALSE
    /\ \E nw \in BOOLEAN, plt \in RuleLeadTimes :
          rules = Rules(nw, 0, plt, "LATEST_ACCEPTABLE")
    /\ desired_date = NoDate
    /\ \E wh \in {None, "Finished Goods - SD"}, io \in ItemOverrides,
          wo \in WarehouseOverrides :
          /\ items = <<Item(1, 1, wh)>>
          /\ item_lead_times =
                [NoOverrides({ItemCodes[i] : i \in 1..Len(ItemCodes)})
                    EXCEPT ![ItemCodes[1]] = io]
          /\ warehouse_lead_times =
                [NoOverrides(Warehouses)
                    EXCEPT ![IF wh = None THEN default_warehouse ELSE wh] = wo]
    /\ \E b \in {Bin("ok", 1, 0, "ok", <<>>),
                  Bin("ok", 0, 0, "ok", <<PO("PO-1", 1, today + 1)>>)} :
          erp = [c \in {ItemCodes[1]} |-> b]

(* orders around the thresholds of the confidence score: stock just short  *)
(* of the demand, purchase orders due within and beyond 7 days             *)
InitConfidence ==
    /\ Locals /\ NoLeadOverrides /\ Once
    /\ today = Monday
    /\ now_after_cutoff = FALSE
    /\ rules = Rules(TRUE, 1, 1, "LATEST_ACCEPTABLE")
    /\ desired_date = NoDate
    /\ \E qty \in {ConfSmall, ConfLarge, 2 * ConfLarge} :
          /\ items = <<Item(1, qty, None)>>
          /\ \E actual \in {0, ConfSmall - 7, ConfSmall - 6, ConfSmall - 5,
                             qty - 2, qty - 1, qty},
                pos \in Listings({1, ConfSmall - 5, ConfSmall - 4},
                                 {today + 7, today + 8}, 2) :
                erp = [c \in {ItemCodes[1]} |-> Bin("ok", actual, 0, "ok", pos)]

(* the same request arriving several times at one process, while the ERP   *)
(* keeps answering in the same way                                         *)
InitRepeat ==
    /\ Locals /\ NoLeadOverrides
    /\ pending \in 1..MaxRepeat
    /\ today = Monday
    /\ now_after_cutoff = FALSE
    /\ \E days \in {0, 1} : rules = Rules(TRUE, days, days, "LATEST_ACCEPTABLE")
    /\ desired_date = NoDate
    /\ items = <<Item(1, 1, None)>>
    /\ \E bo \in ClientOutcomes, po \in ClientOutcomes, actual \in {0, 1} :
          erp = [c \in {ItemCodes[1]} |-> Bin(bo, actual, 0, po, <<>>)]

(* a request body as it arrives at POST /otp/promise, before validation:   *)
(* any number of items, quantities of either sign                          *)
InitRequest ==
    /\ pc = "received" /\ Untouched /\ NoLeadOverrides /\ Once
    /\ today = Monday
    /\ now_after_cutoff = FALSE
    /\ rules = Rules(TRUE, 1, 1, "LATEST_ACCEPTABLE")
    /\ desired_date = NoDate
    /\ \E n \in 0..MaxItems :
          \E qs \in [1..n -> {0 - 1, 0, 1}], wh \in {None, "Stores - SD"} :
              items = [i \in 1..n |-> Item(i, qs[i], wh)]
    /\ \E actual \in {0, 1}, po \in {"ok", "http_error"} :
          erp = [c \in {ItemCodes[i] : i \in 1..MaxItems} |->
                    Bin("ok", actual, 0, po, <<>>)]

(* an order of two items, a desired date, and for each item some stock,    *)
(* a purchase order, both or neither                                       *)
InitSplit ==
    /\ Locals /\ NoLeadOverrides /\ Once
    /\ today = Monday
    /\ now_after_cutoff = FALSE
    /\ \E mode \in Modes : rules = Rules(TRUE, 0, 1, mode)
    /\ desired_date \in {today, today + 1, today + MaxDesiredAhead}
    /\ items = <<Item(1, 1, None), Item(2, MaxQty, None)>>
    /\ erp \in [{ItemCodes[1], ItemCodes[2]} ->
                  {Bin("ok", stock, 0, "ok", pos) :
                      stock \in {0, 1, MaxQty},
                      pos \in {<<>>, <<PO("PO-1", 1, today + MaxPODelay)>>,
                               <<PO("PO-1", MaxQty, today + 1)>>}}]

(* no call of expand_warehouse_list in this run *)
NoListing == warehouse_names = <<>> /\ deduplicate = TRUE /\ expansion = <<>>

(* the names a list handed to expand_warehouse_list is drawn from *)
ListedNames == {"Stores - SD", "STORES - SD", "Finished Goods - SD", "Stores - WH",
                "All Warehouses - SD", "All Warehouses - WH", "Small Parts"}

(* a caller holding the default warehouse manager and a list of names *)
InitExpand ==
    /\ pc = "listing" /\ Untouched /\ NoLeadOverrides /\ Once
    /\ today = Monday
    /\ now_after_cutoff = FALSE
    /\ rules = Rules(TRUE, 1, 1, "LATEST_ACCEPTABLE")
    /\ desired_date = NoDate
    /\ items = <<>>
    /\ erp = [c \in {ItemCodes[i] : i \in 1..MaxItems} |-> Bin("ok", 0, 0, "ok", <<>>)]
    /\ \E n \in 0..MaxNames : warehouse_names \in [1..n -> ListedNames]
    /\ deduplicate \in BOOLEAN
    /\ expansion = <<>>

Init ==
    \/ /\ \/ InitDates \/ InitFail \/ InitOrder \/ InitPlan \/ InitWarehouse
          \/ InitLead \/ InitConfidence \/ InitRepeat \/ InitRequest
          \/ InitSplit
       /\ NoListing
    \/ InitExpand

-----------------------------------------------------------------------------
(* default_warehouse_manager.expand_warehouse_list(warehouse_names,       *)
(* deduplicate)                                                            *)
Expand ==
    /\ pc = "listing"
    /\ expansion' = expand_warehouse_list(warehouse_names, deduplicate)
    /\ pc' = "expanded"
    /\ UNCHANGED <<today, now_after_cutoff, items, desired_date, rules,
                   item_lead_times, warehouse_lead_times, erp, base_today, plan,
                   incoming_seen, all_item_reasons, has_po_access_error,
                   latest_fulfillment_date, response, circuit, pending, history,
                   warehouse_names, deduplicate>>

-----------------------------------------------------------------------------
(* POST /otp/promise: the body is parsed into a PromiseRequest before the  *)
(* route function runs; a body that fails validation is answered with 422  *)
(* and the controller is never called                                      *)
Validate ==
    /\ pc = "received"
    /\ IF PromiseRequestValid(items)
       THEN pc' = "idle" /\ UNCHANGED response
       ELSE pc' = "invalid" /\ response' = [kind |-> "ValidationError"]
    /\ UNCHANGED <<today, now_after_cutoff, items, desired_date, rules,
                   item_lead_times, warehouse_lead_times, erp, base_today, plan,
                   incoming_seen, all_item_reasons, has_po_access_error,
                   latest_fulfillment_date, circuit, pending, history>>
    /\ UNCHANGED listing

(* calculate_promise, step by step *)

(* lines 179-191 *)
Begin ==
    /\ pc = "idle"
    /\ base_today' = IF rules.no_weekends THEN next_working_day(today) ELSE today
    /\ latest_fulfillment_date' = base_today'
    /\ plan' = <<>>
    /\ incoming_seen' = <<>>
    /\ all_item_reasons' = <<>>
    /\ has_po_access_error' = FALSE
    /\ pc' = "items"
    /\ UNCHANGED <<today, now_after_cutoff, items, desired_date, rules,
                   item_lead_times, warehouse_lead_times, erp, response,
                   circuit, pending, history>>
    /\ UNCHANGED listing

MaxDate(srcs, floor) ==
    LET RECURSIVE M(_)
        M(i) == IF i = 0 THEN floor ELSE Max(srcs[i].ship_ready_date, M(i - 1))
    IN M(Len(srcs))

(* lines 194-208: one iteration of the loop over the items *)
BuildItem ==
    /\ pc = "items"
    /\ Len(plan) < Len(items)
    /\ LET item == items[Len(plan) + 1]
           warehouse == IF item.warehouse = None THEN default_warehouse
                        ELSE item.warehouse
           b == _build_item_plan(item, warehouse, base_today, rules, circuit)
       IN /\ circuit' = b.cb
          /\ IF b.raised
             THEN /\ pc' = "raised"
                  /\ response' = [kind |-> "exception"]
                  /\ UNCHANGED <<plan, incoming_seen, all_item_reasons,
                                 has_po_access_error, latest_fulfillment_date>>
             ELSE /\ plan' = Append(plan, b.item_plan)
                  /\ incoming_seen' = Append(incoming_seen,
                                             [queried |-> b.queried, supply |-> b.incoming,
                                              access_error |-> b.po_access_error])
                  /\ all_item_reasons' = all_item_reasons \o b.reasons
                  /\ has_po_access_error' =
                         (has_po_access_error \/ b.po_access_error # None)
                  /\ latest_fulfillment_date' =
                         MaxDate(b.item_plan.fulfillment, latest_fulfillment_date)
                  /\ UNCHANGED <<pc, response>>
    /\ UNCHANGED <<today, now_after_cutoff, items, desired_date, rules,
                   item_lead_times, warehouse_lead_times, erp, base_today,
                   pending, history>>
    /\ UNCHANGED listing

CanFulfill(p) == \A i \in 1..Len(p) : p[i].shortage = 0

(* DetermineStatus ignoring the access error *)
DetermineStatus_NoAccessCase(po_access_error, can_fulfill) ==
    IF ~can_fulfill THEN "CANNOT_FULFILL" ELSE "OK"

DetermineStatus(po_access_error, can_fulfill) ==
    IF po_access_error /\ ~can_fulfill THEN "CANNOT_PROMISE_RELIABLY"
    ELSE IF ~can_fulfill THEN "CANNOT_FULFILL"
    ELSE "OK"

(* FinalPromiseDate without the can_fulfill guard *)
FinalPromiseDate_Unguarded(can_fulfill, promise_result) ==
    promise_result.promise_date

FinalPromiseDate(can_fulfill, promise_result) ==
    IF can_fulfill THEN promise_result.promise_date ELSE NoDate

DegradeConfidence(po_access_error, scored) ==
    IF po_access_error THEN "LOW" ELSE scored

(* lines 210-271 *)
Finish ==
    /\ pc = "items"
    /\ Len(plan) = Len(items)
    /\ LET promise_date_raw ==
               _apply_business_rules(latest_fulfillment_date, rules, today)
           promise_result ==
               _apply_desired_date_constraints(promise_date_raw, desired_date, rules)
           scored == _calculate_confidence(plan, today)
           confidence == DegradeConfidence(has_po_access_error, scored)
           reasons ==
               all_item_reasons
               \o _generate_reasons(plan, promise_result.promise_date,
                                    latest_fulfillment_date, rules)
               \o (IF promise_result.adjusted_reason # None
                   THEN <<[kind |-> promise_result.adjusted_reason]>> ELSE <<>>)
           blockers ==
               _identify_blockers(plan, today)
               \o (IF has_po_access_error THEN <<PO_ACCESS_BLOCKER>> ELSE <<>>)
           options == _suggest_options(plan, desired_date, promise_result, today)
           can_fulfill == CanFulfill(plan)
           status == DetermineStatus(has_po_access_error, can_fulfill)
           final_promise_date == FinalPromiseDate(can_fulfill, promise_result)
       IN IF promise_result.raised
          THEN /\ pc' = "rejected"
               /\ response' = [kind |-> "ValueError",
                               desired_date |-> desired_date,
                               earliest_possible |-> promise_date_raw]
          ELSE /\ pc' = "done"
               /\ response' =
                    [kind |-> "PromiseResponse",
                     status |-> status,
                     promise_date |-> final_promise_date,
                     promise_date_raw |-> promise_date_raw,
                     desired_date |-> desired_date,
                     desired_date_mode |->
                         IF desired_date # NoDate THEN rules.desired_date_mode ELSE None,
                     on_time |-> IF final_promise_date # NoDate
                                 THEN promise_result.on_time ELSE None,
                     adjusted_due_to_no_early_delivery |->
                         promise_result.adjusted_due_to_no_early_delivery,
                     can_fulfill |-> can_fulfill,
                     confidence |-> confidence,
                     plan |-> plan,
                     reasons |-> reasons,
                     blockers |-> blockers,
                     options |-> options]
    /\ UNCHANGED <<today, now_after_cutoff, items, desired_date, rules,
                   item_lead_times, warehouse_lead_times, erp, base_today, plan,
                   incoming_seen, all_item_reasons, has_po_access_error,
                   latest_fulfillment_date, circuit, pending, history>>
    /\ UNCHANGED listing

(* what a finished call left to its caller, and the clock it ran under *)
Outcome ==
    [pc |-> pc, response |-> response, today |-> today,
     now_after_cutoff |-> now_after_cutoff]

(* the wall clock between two requests: unchanged, past the cutoff time of *)
(* the same day, or the next morning                                       *)
LaterClocks ==
    {<<today, now_after_cutoff>>, <<today, TRUE>>, <<today + 1, FALSE>>}

(* the same request arrives again: calculate_promise starts afresh with    *)
(* its own locals, _get_today and _apply_cutoff_rule read the clock anew,  *)
(* and the module-level circuit breaker is the one the last call left      *)
NextCall ==
    /\ pc \in {"done", "raised", "rejected"}
    /\ pending > 0
    /\ pending' = pending - 1
    /\ history' = Append(history, Outcome)
    /\ \E clock \in LaterClocks :
          /\ today' = clock[1]
          /\ now_after_cutoff' = clock[2]
    /\ \E cooled \in BOOLEAN :
          circuit' = CircuitBreaker(circuit.state, circuit.failure_count,
                                    cooled /\ circuit.state = "open")
    /\ pc' = "idle"
    /\ base_today' = NoDate
    /\ plan' = <<>>
    /\ incoming_seen' = <<>>
    /\ all_item_reasons' = <<>>
    /\ has_po_access_error' = FALSE
    /\ latest_fulfillment_date' = NoDate
    /\ response' = [kind |-> "none"]
    /\ UNCHANGED <<items, desired_date, rules, item_lead_times,
                   warehouse_lead_times, erp>>
    /\ UNCHANGED listing

(* the route function of POST /otp/promise around the controller call:    *)
(* the result goes out as it is, ERPNextClientError becomes 503, and every *)
(* other exception becomes 500 with "Internal error: " before its message  *)
Route(at, resp) ==
    CASE at = "invalid" -> [status_code |-> 422, detail |-> resp]
      [] at = "done" -> [status_code |-> 200, body |-> resp]
      [] resp.kind = "ERPNextClientError" ->
            [status_code |-> 503, prefix |-> "ERPNext service error", detail |-> resp]
      [] OTHER ->
            [status_code |-> 500, prefix |-> "Internal error", detail |-> resp]

Next == Validate \/ Begin \/ BuildItem \/ Finish \/ NextCall \/ Expand

Spec == Init /\ [][Next]_vars

-----------------------------------------------------------------------------
(* Properties *)

Done == pc = "done"

HasSource(ip, kind) ==
    \E k \in 1..Len(ip.fulfillment) : ip.fulfillment[k].source = kind

(* C1: in every item plan the quantities of the fulfillment sources plus   *)
(* the shortage add up to qty_required exactly, and the shortage is never  *)
(* negative.                                                               *)
C1_AllocationConserved ==
    \A i \in 1..Len(plan) :
        /\ SumQty(plan[i].fulfillment) + plan[i].shortage = plan[i].qty_required
        /\ plan[i].shortage >= 0

C1_Witness ==
    /\ Done
    /\ \E i \in 1..Len(response.plan) :
          /\ HasSource(response.plan[i], "stock")
          /\ HasSource(response.plan[i], "purchase_order")
          /\ response.plan[i].shortage > 0

(* C2: in every returned result promise_date is null exactly when the      *)
(* status is not OK.                                                       *)
C2_NullDateIffNotOK ==
    Done => ((response.promise_date = NoDate) <=> (response.status # "OK"))

C2_Witness ==
    /\ Done
    /\ response.status = "CANNOT_PROMISE_RELIABLY"
    /\ response.promise_date = NoDate
    /\ response.promise_date_raw # NoDate

Rejected == pc = "rejected"

DesiredGiven == desired_date # NoDate

(* the raw promise date of the call, once all items are planned *)
RawPromise == _apply_business_rules(latest_fulfillment_date, rules, today)

(* C3: under no_weekends every emitted date (each ship_ready_date,         *)
(* promise_date_raw, and the final promise_date, adjusted or not) is a     *)
(* working day, never a Friday or Saturday.                                *)
C3_EmittedDatesWorking ==
    (Done /\ rules.no_weekends) =>
        /\ \A i \in 1..Len(response.plan) :
              \A k \in 1..Len(response.plan[i].fulfillment) :
                  is_working_day(response.plan[i].fulfillment[k].ship_ready_date)
        /\ is_working_day(response.promise_date_raw)
        /\ (response.promise_date # NoDate => is_working_day(response.promise_date))

HasAccessBlocker(r) ==
    \E k \in 1..Len(r.blockers) : r.blockers[k] = PO_ACCESS_BLOCKER

AccessProblemResult ==
    /\ response.confidence = "LOW"
    /\ response.status = "CANNOT_PROMISE_RELIABLY"
    /\ response.promise_date = NoDate
    /\ HasAccessBlocker(response)

C5_ProviderFailuresAbsorbed ==
    /\ pc # "raised"
    /\ Done =>
          \A i \in 1..Len(plan) :
              (\/ erp[plan[i].item_code].bin_outcome # "ok"
               \/ (incoming_seen[i].queried /\ erp[plan[i].item_code].po_outcome # "ok"))
              => (response.confidence = "LOW" /\ HasAccessBlocker(response))

(* C6: NO_EARLY_DELIVERY with a desired date, order fulfillable: raw       *)
(* earlier than desired gives promise = desired, adjusted, on_time; raw on *)
(* or after desired gives promise = raw, not adjusted, and on_time exactly *)
(* when raw equals desired.                                                *)
C6_NoEarlyDelivery ==
    (Done /\ response.can_fulfill /\ DesiredGiven
          /\ rules.desired_date_mode = "NO_EARLY_DELIVERY") =>
        IF response.promise_date_raw < desired_date
        THEN /\ response.promise_date = desired_date
             /\ response.adjusted_due_to_no_early_delivery
             /\ response.on_time = "True"
        ELSE /\ response.promise_date = response.promise_date_raw
             /\ ~response.adjusted_due_to_no_early_delivery
             /\ response.on_time = PyBool(response.promise_date_raw = desired_date)

(* C7: in STRICT_FAIL mode a raw promise date later than the desired date  *)
(* yields no result but a rejection carrying the raw date; a raw date on   *)
(* or before the desired date yields what LATEST_ACCEPTABLE yields:        *)
(* promise = raw, on_time true, not adjusted.                              *)
C7_StrictFail ==
    /\ Rejected =>
          /\ rules.desired_date_mode = "STRICT_FAIL"
          /\ DesiredGiven
          /\ RawPromise > desired_date
          /\ response.earliest_possible = RawPromise
    /\ (Done /\ DesiredGiven /\ rules.desired_date_mode = "STRICT_FAIL") =>
          /\ response.promise_date_raw = RawPromise
          /\ response.promise_date_raw <= desired_date
          /\ ~response.adjusted_due_to_no_early_delivery
          /\ response.can_fulfill =>
                /\ response.promise_date = response.promise_date_raw
                /\ response.on_time = "True"

C7_Witness ==
    /\ Rejected
    /\ response.earliest_possible > response.desired_date
    /\ CanFulfill(plan)

(* C8: for a fulfillable order, without a desired date the promise date is *)
(* the raw date and on_time is null; in LATEST_ACCEPTABLE mode with a      *)
(* desired date the promise date is the raw date and on_time is true       *)
(* exactly when raw <= desired.                                            *)
C8_PassThroughAndLatestAcceptable ==
    (Done /\ response.can_fulfill) =>
        /\ ~DesiredGiven =>
              /\ response.promise_date = response.promise_date_raw
              /\ response.on_time = None
        /\ (DesiredGiven /\ rules.desired_date_mode = "LATEST_ACCEPTABLE") =>
              /\ response.promise_date = response.promise_date_raw
              /\ response.on_time = PyBool(response.promise_date_raw <= desired_date)

C8_Witness ==
    /\ Done /\ response.can_fulfill /\ DesiredGiven
    /\ rules.desired_date_mode = "LATEST_ACCEPTABLE"
    /\ response.promise_date_raw = desired_date
    /\ response.on_time = "True"

POSources(ip) == SelectSeq(ip.fulfillment, LAMBDA f : f.source = "purchase_order")

StockFirst(ip) ==
    \A k, l \in 1..Len(ip.fulfillment) :
        (k < l) => ~(ip.fulfillment[k].source = "purchase_order"
                     /\ ip.fulfillment[l].source = "stock")

(* the number in a purchase-order id, and its place in the ERP's listing *)
PoNumber(id) == Len(PoIds) + 1 - (CHOOSE k \in 1..Len(PoIds) : PoIds[k] = id)
ListingIndex(item_code, id) ==
    CHOOSE k \in 1..Len(erp[item_code].pos) : erp[item_code].pos[k].po_id = id

(* C9 as stated: stock sources before purchase-order sources, the latter   *)
(* ascending by expected date, equal dates ordered by purchase-order id.   *)
C9_OrderedByDateThenId ==
    \A i \in 1..Len(plan) :
        /\ StockFirst(plan[i])
        /\ LET po == POSources(plan[i]) IN
           \A k, l \in 1..Len(po) :
               (k < l) =>
                   \/ po[k].expected_date < po[l].expected_date
                   \/ /\ po[k].expected_date = po[l].expected_date
                      /\ PoNumber(po[k].po_id) <= PoNumber(po[l].po_id)

(* C9 amended: stock sources before purchase-order sources, the latter     *)
(* ascending by expected date, equal dates in the order in which the ERP   *)
(* listed the purchase orders.                                             *)
C9_OrderedByDateThenListing ==
    \A i \in 1..Len(plan) :
        /\ StockFirst(plan[i])
        /\ LET po == POSources(plan[i]) IN
           \A k, l \in 1..Len(po) :
               (k < l) =>
                   \/ po[k].expected_date < po[l].expected_date
                   \/ /\ po[k].expected_date = po[l].expected_date
                      /\ ListingIndex(plan[i].item_code, po[k].po_id)
                            < ListingIndex(plan[i].item_code, po[l].po_id)

C9_Witness ==
    /\ Done
    /\ \E i \in 1..Len(plan) :
          /\ HasSource(plan[i], "stock")
          /\ LET po == POSources(plan[i]) IN
             /\ Len(po) >= 2
             /\ po[1].expected_date = po[2].expected_date

ConsumedInFull(po, rec) ==
    \E k \in 1..Len(po) : po[k].po_id = rec.po_id /\ po[k].qty = rec.qty

Contributes(po, rec) ==
    \E k \in 1..Len(po) : po[k].po_id = rec.po_id

StockQty(ip) ==
    SumQty(SelectSeq(ip.fulfillment, LAMBDA f : f.source = "stock"))

(* C10: purchase orders are looked at only when stock leaves quantity      *)
(* unmet; a purchase order contributes only if every earlier-dated one     *)
(* returned for the item was consumed in full; a shortage remains only if  *)
(* every returned purchase order was consumed in full.                     *)
C10_EarliestFirst ==
    \A i \in 1..Len(plan) :
        LET ip == plan[i]
            sup == incoming_seen[i].supply
            po == POSources(ip)
        IN /\ incoming_seen[i].queried <=> (StockQty(ip) < ip.qty_required)
           /\ (Len(po) > 0 => incoming_seen[i].queried)
           /\ \A k \in 1..Len(po) : \E j \in 1..Len(sup) :
                  /\ sup[j].po_id = po[k].po_id
                  /\ po[k].qty <= sup[j].qty
           /\ \A j, k \in 1..Len(sup) :
                  (Contributes(po, sup[k])
                   /\ sup[j].expected_date < sup[k].expected_date)
                  => ConsumedInFull(po, sup[j])
           /\ (ip.shortage > 0 =>
                  \A j \in 1..Len(sup) : ConsumedInFull(po, sup[j]))

C10_Witness ==
    /\ Done
    /\ \E i \in 1..Len(plan) :
          LET sup == incoming_seen[i].supply
              po == POSources(plan[i])
          IN /\ Len(sup) = 2 /\ Len(po) = 2
             /\ sup[1].expected_date < sup[2].expected_date
             /\ po[1].qty = sup[1].qty
             /\ po[2].qty < sup[2].qty
             /\ HasSource(plan[i], "stock")

(* the warehouse the i-th item is planned from (line 195) *)
WarehouseOf(i) ==
    IF items[i].warehouse = None THEN default_warehouse ELSE items[i].warehouse

WarehouseTypeOf(i) == classify_warehouse(WarehouseOf(i))

(* what the ERP holds of the i-th item: actual less reserved *)
HeldStock(i) ==
    erp[items[i].item_code].actual_qty - erp[items[i].item_code].reserved_qty

LeadTimeOf(i) == _get_processing_lead_time(items[i].item_code, WarehouseOf(i), rules)

(* n processing days after a date: working days when no_weekends is on *)
ShipReadyAfter(available_date, n) ==
    IF rules.no_weekends THEN add_working_days(available_date, n)
    ELSE available_date + n

(* C12: ship_ready_date = availability date + resolved processing lead     *)
(* time (working days under no_weekends, calendar days otherwise); stock   *)
(* is available on the working-day-normalised current date, stock of a     *)
(* NEEDS_PROCESSING warehouse takes one more processing day, a purchase    *)
(* order is available on its expected date moved to the next working day   *)
(* under no_weekends.                                                      *)
C12_ShipReadyDates ==
    \A i \in 1..Len(plan) : \A k \in 1..Len(plan[i].fulfillment) :
        LET f == plan[i].fulfillment[k]
            extra == IF WarehouseTypeOf(i) = "NEEDS_PROCESSING" THEN 1 ELSE 0
        IN IF f.source = "stock"
           THEN /\ f.available_date =
                      (IF rules.no_weekends THEN next_working_day(today) ELSE today)
                /\ f.ship_ready_date =
                      ShipReadyAfter(f.available_date, LeadTimeOf(i) + extra)
           ELSE /\ f.available_date =
                      (IF rules.no_weekends THEN next_working_day(f.expected_date)
                       ELSE f.expected_date)
                /\ f.ship_ready_date = ShipReadyAfter(f.available_date, LeadTimeOf(i))

C12_Witness ==
    /\ Done
    /\ rules.no_weekends
    /\ \E i \in 1..Len(plan) :
          /\ WarehouseTypeOf(i) = "NEEDS_PROCESSING"
          /\ LeadTimeOf(i) > 0
          /\ \E k, l \in 1..Len(plan[i].fulfillment) :
                /\ plan[i].fulfillment[k].source = "stock"
                /\ plan[i].fulfillment[k].ship_ready_date
                      > plan[i].fulfillment[k].available_date + LeadTimeOf(i) + 1
                /\ plan[i].fulfillment[l].source = "purchase_order"
                /\ ~is_working_day(plan[i].fulfillment[l].expected_date)
                /\ plan[i].fulfillment[l].ship_ready_date
                      > plan[i].fulfillment[l].expected_date + LeadTimeOf(i)

(* a reason of the result names the warehouse *)
ReasonNames(r, warehouse) ==
    \E k \in 1..Len(r.reasons) :
        /\ "warehouse" \in DOMAIN r.reasons[k]
        /\ r.reasons[k].warehouse = warehouse

(* C13: for a warehouse classified GROUP the plan allocates nothing from   *)
(* it, whatever its stock level, and the result carries a reason naming    *)
(* the group warehouse.                                                    *)
C13_GroupWarehouseReported ==
    Done =>
        \A i \in 1..Len(plan) :
            WarehouseTypeOf(i) = "GROUP" =>
                /\ ~HasSource(plan[i], "stock")
                /\ ReasonNames(response, WarehouseOf(i))

(* the level deciding the lead time of the i-th item *)
LevelOf(i) ==
    LeadTimeLevel(item_lead_times[items[i].item_code],
                  warehouse_lead_times[WarehouseOf(i)],
                  rules.processing_lead_time_days)

(* the processing days between availability and ship-readiness of a source *)
(* of the i-th item, counted in calendar days                              *)
ProcessingDays(i, f) ==
    f.ship_ready_date - f.available_date
        - (IF f.source = "stock" /\ WarehouseTypeOf(i) = "NEEDS_PROCESSING"
           THEN 1 ELSE 0)

(* the lead time every source of every item was planned with follows the   *)
(* hierarchy item override, warehouse override, rule value, system default *)
LeadTimeByHierarchy ==
    \A i \in 1..Len(plan) : \A k \in 1..Len(plan[i].fulfillment) :
        LET io == item_lead_times[items[i].item_code]
            wo == warehouse_lead_times[WarehouseOf(i)]
            rv == rules.processing_lead_time_days
        IN ~rules.no_weekends =>
              ProcessingDays(i, plan[i].fulfillment[k]) =
                  (IF io # NoLead THEN io
                   ELSE IF wo # NoLead THEN wo
                   ELSE IF rv # NoLead THEN rv
                   ELSE processing_lead_time_days_default)

(* C14: the lead time used is the item override, else the warehouse        *)
(* override, else the per-call rule value, else the configured system      *)
(* default, and each of the four levels decides for some input.            *)
C14_LeadTimeHierarchy ==
    /\ LeadTimeByHierarchy
    /\ \A level \in 1..4 :
          \E io \in ItemOverrides, wo \in WarehouseOverrides, rv \in RuleLeadTimes :
              LeadTimeLevel(io, wo, rv) = level

(* the raw promise date the call computed, returned or carried by the     *)
(* rejection                                                               *)
RawDate ==
    IF Rejected THEN response.earliest_possible ELSE response.promise_date_raw

(* buffer, cutoff day and weekend skip applied to a base date *)
Aggregated(base) ==
    LET buffered == ShipReadyAfter(base, rules.lead_time_buffer_days)
        cut == IF buffered = today /\ now_after_cutoff
               THEN ShipReadyAfter(buffered, 1) ELSE buffered
    IN IF rules.no_weekends THEN next_working_day(cut) ELSE cut

(* C15 as stated: the raw promise date is the latest ship_ready_date of    *)
(* all sources of all items, or today when there is no source, plus the    *)
(* buffer, plus one day when that date is today and the call is after the  *)
(* cutoff, moved to the next working day under no_weekends.                *)
C15_RawPromiseFromToday ==
    (Done \/ Rejected) =>
        RawDate = Aggregated(IF AllSources(plan) = <<>> THEN today
                             ELSE MaxDate(AllSources(plan), NoDate))

(* C15 amended: as stated, but when there is no source the base is the     *)
(* current date moved to the next working day under no_weekends; the       *)
(* cutoff still compares with the current date itself.                     *)
C15_RawPromiseFromWorkingToday ==
    (Done \/ Rejected) =>
        RawDate = Aggregated(IF AllSources(plan) # <<>>
                             THEN MaxDate(AllSources(plan), NoDate)
                             ELSE IF rules.no_weekends THEN next_working_day(today)
                             ELSE today)

C15_Witness ==
    /\ Done
    /\ rules.no_weekends
    /\ ~is_working_day(today)
    /\ now_after_cutoff
    /\ AllSources(plan) = <<>>
    /\ rules.lead_time_buffer_days > 0
    /\ response.promise_date_raw > next_working_day(today)

(* the computed confidence stands: no access problem forced it to LOW *)
Scored == Done /\ ~has_po_access_error

C17_HighOnlyAllFromStock ==
    (Done /\ response.confidence = "HIGH") =>
        \A i \in 1..Len(response.plan) :
            /\ ~HasSource(response.plan[i], "purchase_order")
            /\ response.plan[i].shortage = 0

Rank(confidence) ==
    CASE confidence = "HIGH" -> 3
      [] confidence = "MEDIUM" -> 2
      [] confidence = "LOW" -> 1

(* no plan with the same total and purchase-order quantities, less stock  *)
(* and more shortage scores above reported                                 *)
NeverBetter(total, stock_qty, near_po_qty, far_po_qty, shortage_qty, reported) ==
    \A less_stock \in 0..MonoSteps, more_shortage \in 0..MonoSteps :
        (/\ stock_qty - less_stock >= 0
         /\ shortage_qty + more_shortage <= total)
        => Rank(ConfidenceLevel(total, stock_qty - less_stock, near_po_qty,
                                far_po_qty, shortage_qty + more_shortage))
             <= reported

(* C18: with the total and the purchase-order quantities held fixed, a     *)
(* lower stock quantity or a higher shortage quantity (or both, as when    *)
(* stock turns into shortage) never gives a better confidence than the     *)
(* one reported.                                                           *)
C18_ConfidenceMonotonic ==
    Scored =>
        NeverBetter(TotalQty(response.plan), StockQtyOf(response.plan),
                    NearPOQty(response.plan, today), FarPOQty(response.plan, today),
                    ShortageQty(response.plan), Rank(response.confidence))

C18_Witness ==
    /\ Scored
    /\ response.confidence = "HIGH"
    /\ \E d \in 1..MonoSteps :
          /\ ConfidenceLevel(TotalQty(plan), StockQtyOf(plan) - d, 0, 0,
                             ShortageQty(plan) + d) = "LOW"
          /\ ConfidenceLevel(TotalQty(plan), StockQtyOf(plan) - (d - 1), 0, 0,
                             ShortageQty(plan) + (d - 1)) = "MEDIUM"

-----------------------------------------------------------------------------
(* Repeated calls of calculate_promise in one process.  NextCall leaves    *)
(* the items, the desired date, the rules and the ERP's answers as they    *)
(* were, so every call of a behaviour has the same inputs and snapshot.    *)

Returned == pc \in {"done", "raised", "rejected"}

(* the earlier call h ended as the present one did *)
SameResult(h) == h.pc = pc /\ h.response = response

(* the earlier call h ran under the clock reading of the present one *)
SameClock(h) == h.today = today /\ h.now_after_cutoff = now_after_cutoff

(* C19: determinism. Two calls of calculate_promise with the same items,   *)
(* desired date, rules and supply snapshot end with the same result: the   *)
(* same response, or the same error.                                       *)
C19_SameInputsSameResult ==
    Returned => \A k \in 1..Len(history) : SameResult(history[k])

(* C20: no state shared between invocations. A call ends as every earlier  *)
(* call of the process with the same inputs, snapshot and clock reading    *)
(* ended: what the earlier calls did leaves no trace in its result.        *)
C20_EarlierCallsLeaveNoTrace ==
    Returned =>
        \A k \in 1..Len(history) : SameClock(history[k]) => SameResult(history[k])

-----------------------------------------------------------------------------
(* Request validation *)

(* what the claim calls an invalid request *)
(* the run is one of POST /otp/promise, not of expand_warehouse_list alone *)
Requested == pc \notin {"listing", "expanded"}

EmptyOrNonPositive ==
    Requested /\ (Len(items) = 0 \/ \E i \in 1..Len(items) : items[i].qty <= 0)

(* C21: a request with an empty item list, or with an item whose quantity  *)
(* is not positive, is rejected at once: it never enters calculate_promise, *)
(* no item plan is built, no supply is looked up, and what the caller gets *)
(* is the validation error, never a promise result.                        *)
C21_InvalidRequestRejected ==
    EmptyOrNonPositive =>
        /\ pc \in {"received", "invalid"}
        /\ plan = <<>> /\ incoming_seen = <<>> /\ base_today = NoDate
        /\ (pc = "invalid" => response = [kind |-> "ValidationError"])
        /\ (pc = "received" => response = [kind |-> "none"])

C21_Witness ==
    /\ pc = "invalid"
    /\ Len(items) = 2
    /\ items[1].qty > 0 /\ items[2].qty = 0
    /\ erp[items[1].item_code].actual_qty > 0

-----------------------------------------------------------------------------
(* What reaches the caller of POST /otp/promise *)

(* the answer to a call that failed inside with an exception of no         *)
(* particular meaning                                                      *)
InternalFailureAnswer == Route("raised", [kind |-> "exception"])

(* C22: a STRICT_FAIL date miss reaches the caller as a rejection of its   *)
(* own kind that carries the earliest achievable date: it is no promise    *)
(* result (so neither a shortage nor an access-problem result), and its    *)
(* kind is not the kind of a generic internal failure.                     *)
C22_StrictFailDistinct ==
    Rejected =>
        /\ response.earliest_possible = RawPromise
        /\ Route(pc, response).status_code # 200
        /\ Route(pc, response).status_code # InternalFailureAnswer.status_code

-----------------------------------------------------------------------------
(* Calendar arithmetic *)

FridayOrSaturday(d) == d % 7 \in {4, 5}

(* the days after d up to and including e that are neither Friday nor Saturday *)
WorkingDaysBetween(d, e) == {x \in (d + 1)..e : ~FridayOrSaturday(x)}

-----------------------------------------------------------------------------
(* Classification of warehouse names *)

NormalizedName(i) == Normalized[WarehouseOf(i)]

TransitLike(n) == Contains(P_transit, n) \/ Contains(P_in_transit, n)

WipOrScrapLike(n) ==
    \/ Contains(P_wip, n) \/ Contains(P_work_in_progress, n)
    \/ Contains(P_scrap, n) \/ Contains(P_reject, n)

FinishedLike(n) == Contains(P_finished_goods, n) \/ Contains(P_finished, n)

GroupLike(n) == Contains(P_all, n) \/ Contains(P_group, n)

(* the type the stated resolution order gives *)
StatedType(n) ==
    IF InTable(n) THEN TableType(n)
    ELSE IF TransitLike(n) THEN "IN_TRANSIT"
    ELSE IF WipOrScrapLike(n) THEN "NOT_AVAILABLE"
    ELSE IF FinishedLike(n) THEN "NEEDS_PROCESSING"
    ELSE IF GroupLike(n) THEN "GROUP"
    ELSE "SELLABLE"

(* C24: classify_warehouse takes the type of the configured table when the *)
(* name, in lower case and stripped, is a key of it; otherwise the type of  *)
(* the first rule that matches in the order transit-like, WIP/scrap-like,  *)
(* finished-goods-like, group-like; and SELLABLE when no rule matches.     *)
C24_ClassifiedInStatedOrder ==
    \A i \in 1..Len(items) : WarehouseTypeOf(i) = StatedType(NormalizedName(i))

-----------------------------------------------------------------------------
(* Expansion of group warehouses *)

Norm(name) == Normalized[name]

(* what one listed name stands for: the configured children of a group, *)
(* the name itself otherwise                                             *)
StandsFor(name) ==
    IF classify_warehouse(name) = "GROUP" THEN get_child_warehouses(name)
    ELSE <<name>>

RECURSIVE Replaced(_)
Replaced(names) ==
    IF names = <<>> THEN <<>> ELSE StandsFor(Head(names)) \o Replaced(Tail(names))

(* position of the first entry of list with the normalised name n *)
FirstSeen(n, list) ==
    CHOOSE k \in 1..Len(list) :
        Norm(list[k]) = n /\ \A j \in 1..(k - 1) : Norm(list[j]) # n

NoGroupIn(list) == \A k \in 1..Len(list) : classify_warehouse(list[k]) # "GROUP"

NoRepeatIn(list) ==
    \A i, j \in 1..Len(list) : i # j => list[i] # list[j]

(* list holds, for every normalised name of full, the first entry of    *)
(* full with that name, in the order of those first entries             *)
FirstSeenOrder(list, full) ==
    /\ \A k \in 1..Len(full) : \E i \in 1..Len(list) : Norm(list[i]) = Norm(full[k])
    /\ \A i \in 1..Len(list) : list[i] = full[FirstSeen(Norm(list[i]), full)]
    /\ \A i, j \in 1..Len(list) :
          i < j => FirstSeen(Norm(list[i]), full) < FirstSeen(Norm(list[j]), full)

(* C25: expand_warehouse_list puts the configured children in the place *)
(* of every name classified GROUP and keeps every other name, so the     *)
(* list it returns holds no name classified GROUP; with de-duplication   *)
(* on, no name occurs twice in it and the names stand in the order in    *)
(* which they were first seen.                                           *)
C25_GroupsExpanded ==
    pc = "expanded" =>
        /\ NoGroupIn(expansion)
        /\ ~deduplicate => expansion = Replaced(warehouse_names)
        /\ deduplicate =>
              /\ NoRepeatIn(expansion)
              /\ FirstSeenOrder(expansion, Replaced(warehouse_names))

(* a group was expanded next to one of its own children, a group without *)
(* children and a second spelling of a name were dropped                 *)
C25_Witness ==
    /\ pc = "expanded" /\ deduplicate
    /\ warehouse_names = <<"STORES - SD", "Small Parts", "All Warehouses - SD">>
    /\ expansion = <<"STORES - SD", "Finished Goods - SD",
                     "Goods In Transit - SD", "Work In Progress - SD">>

-----------------------------------------------------------------------------
(* Split shipment *)

(* the whole quantity of plan entry k is covered from stock *)
FulfillableFromStock(k) ==
    /\ plan[k].shortage = 0
    /\ plan[k].fulfillment # <<>>
    /\ \A i \in 1..Len(plan[k].fulfillment) : plan[k].fulfillment[i].source = "stock"

SplitShipmentSuggested ==
    \E o \in 1..Len(response.options) : response.options[o].type = "split_shipment"

(* C26: a result whose desired date was missed, for an order of which    *)
(* some items are fulfillable from stock at once and others are not,     *)
(* carries a split_shipment option.                                      *)
C26_SplitShipmentSuggested ==
    (/\ Done /\ DesiredGiven
     /\ RawPromise > desired_date
     /\ \E k \in 1..Len(plan) : FulfillableFromStock(k)
     /\ \E k \in 1..Len(plan) : ~FulfillableFromStock(k))
    => SplitShipmentSuggested

-----------------------------------------------------------------------------
(* The circuit breaker *)

(* the next request meets an open breaker whose timeout has not elapsed *)
OpenAndWaiting == circuit.state = "open" /\ ~circuit.cooled

(* the next request meets an open breaker whose timeout has elapsed *)
OpenAndCooled == circuit.state = "open" /\ circuit.cooled

(* the request went out and the ERP's answer came back as outcome *)
Sent(outcome, a) ==
    CASE outcome = "ok" -> a.result = "ok"
      [] outcome = "timeout" -> a.result = "timeout" /\ a.cb.failure_count >= 1
      [] OTHER -> a.result = "ERPNextClientError" /\ a.cb.failure_count >= 1

(* what the breaker does with the next request, whatever the ERP answers *)
BreakerStep(outcome, a) ==
    /\ (circuit.state # "open" /\ outcome # "ok") =>
          /\ a.cb.failure_count = circuit.failure_count + 1
          /\ a.cb.state = "open" <=> circuit.failure_count + 1 >= 5
    /\ OpenAndWaiting => a = ERPNextClientError(circuit)
    /\ OpenAndCooled => is_open(circuit).cb.state = "half_open" /\ Sent(outcome, a)
    /\ a.result = "ok" => a.cb.state = "closed" /\ a.cb.failure_count = 0

(* C27: the breaker is open once five failures were recorded with no     *)
(* success in between; while it is open and its timeout has not elapsed  *)
(* every request is refused without being sent; once the timeout has     *)
(* elapsed the next check makes it half-open and the request goes out; a *)
(* recorded success closes it and sets the failure count to zero.        *)
C27_BreakerOpensRefusesRecovers ==
    /\ circuit.state = "closed" => circuit.failure_count < 5
    /\ \A outcome \in ClientOutcomes : BreakerStep(outcome, Attempt(outcome, circuit))

(* the second call's fifth failed attempt opened the breaker, and the    *)
(* requests after it were refused: the call ended with the count at five *)
C27_Witness ==
    /\ pc = "done" /\ Len(history) = 1
    /\ circuit = CircuitBreaker("open", 5, FALSE)

-----------------------------------------------------------------------------
(* Errors of the purchase-order query *)

(* the purchase-order query of plan entry i went out to the ERP: it was *)
(* made, and the breaker, closed at the start of a first call, let it by *)
PurchaseOrdersAsked(i) == history = <<>> /\ incoming_seen[i].queried

(* C28: when the ERP answers the purchase-order query with HTTP 403,    *)
(* get_incoming_supply returns an empty supply list with access_error   *)
(* "permission_denied"; when it answers with another HTTP error, an     *)
(* empty supply list with access_error "other_error".                   *)
C28_PermissionDeniedReported ==
    \A i \in 1..Len(plan) :
        PurchaseOrdersAsked(i) =>
            /\ erp[plan[i].item_code].po_outcome = "http_403" =>
                  /\ incoming_seen[i].supply = <<>>
                  /\ incoming_seen[i].access_error = "permission_denied"
            /\ erp[plan[i].item_code].po_outcome = "http_error" =>
                  /\ incoming_seen[i].supply = <<>>
                  /\ incoming_seen[i].access_error = "other_error"

-----------------------------------------------------------------------------
(* The half-open breaker *)

(* the next request is the trial of a half-open breaker *)
OnTrial == circuit.state = "half_open" \/ OpenAndCooled

(* C29: a single request that fails while the breaker is half-open       *)
(* opens it again, so the requests after it are refused until the        *)
(* timeout elapses; no breaker stays half-open with a failure recorded.  *)
C29_HalfOpenFailureReopens ==
    /\ circuit.state = "half_open" => circuit.failure_count = 0
    /\ \A outcome \in ClientOutcomes \ {"ok"} :
          OnTrial => Attempt(outcome, circuit).cb.state = "open"

-----------------------------------------------------------------------------
(* The no-early-delivery flag *)

(* C30: a result with adjusted_due_to_no_early_delivery set has a       *)
(* promise_date, which is the desired date, and a promise_date_raw      *)
(* strictly before the desired date.                                    *)
C30_AdjustedMeansDesiredDate ==
    (Done /\ response.adjusted_due_to_no_early_delivery) =>
        /\ response.promise_date # NoDate
        /\ response.promise_date = response.desired_date
        /\ response.promise_date_raw < response.desired_date

====
